---- MODULE Spec2Model ----
(***************************************************************************)
(* State-machine model of the Connection class of node-1c-esb              *)
(* (src/src/index.js): the open()/close() lifecycle around the HTTP token  *)
(* and channel fetches and the rhea-promise transport handle.              *)
(*                                                                         *)
(* Every `await` of the source is a suspension point: the code up to the   *)
(* await is one action, the settlement of the awaited promise is another,  *)
(* and anything else may run in between.  The HTTP endpoints and the       *)
(* transport are the environment: their answers are drawn with \E.         *)
(***************************************************************************)
EXTENDS Integers, Sequences, FiniteSets

\* ----------------------------------------------------------------- bounds
\* number of open(), close() and create* calls a behaviour of Spec may make,
\* taken together; a behaviour of SpecWide may make one call more
MaxCalls == 2
\* number of times the network may drop an open transport connection
MaxDrops == 1

Opens == 1..(MaxCalls + 1)
Closes == 1..(MaxCalls + 1)
\* the transport handle created by the o-th open() call is handle o
Handles == Opens
NoHandle == 0

\* ------------------------------------------------------------ value sets
\* The token endpoint issues a fresh id_token per request: the one issued
\* to the o-th open() call is the number o.  Undefined is what
\* `const { id_token: token } = json` yields when the body has no such field
\* or is not JSON; NoToken marks a token variable not assigned yet.
Undefined == 0
NoToken == 0 - 1
ClientSecret == 0 - 2
TokenBodies(o) == {o, Undefined}

\* non-200 statuses the endpoints may answer with
Statuses == {401, 503}

\* process / channel names are strings, modelled as sequences of characters
ProcP == <<"p">>
ProcPQ == <<"p", ".", "q">>
ChanC == <<"c">>
ChanQC == <<"q", ".", "c">>

Descriptor(p, c, d) == [process |-> p, channel |-> c, destination |-> d]

\* `items` bodies the channel endpoint may answer with
ChannelLists ==
  { <<>>,
    << Descriptor(ProcP, ChanC, "d1") >>,
    << Descriptor(ProcP, ChanQC, "d1"), Descriptor(ProcPQ, ChanC, "d2") >> }

\* --------------------------------------------------------------- errors
NoError == [name |-> "none", step |-> "none", kind |-> "none", status |-> 0]
ConnectionError(step, kind, status) ==
  [name |-> "ConnectionError", step |-> step, kind |-> kind, status |-> status]
ConnectionAbortError(step) ==
  [name |-> "ConnectionAbortError", step |-> step, kind |-> "abort", status |-> 0]

\* declared and exported by errors.js; no statement of index.js constructs it
ConnectionFatalError(step, status) ==
  [name |-> "ConnectionFatalError", step |-> step, kind |-> "http",
   status |-> status]

\* a variant of the catch blocks without the test for an AbortError
ClassifyThrownNoAbort(step, kind) == ConnectionError(step, kind, 0)

\* what the catch blocks around fetch() and connection.open() throw
ClassifyThrown(step, kind) ==
  IF kind = "abort" THEN ConnectionAbortError(step)
  ELSE ConnectionError(step, kind, 0)

\* errors _fetchChannels lets through unwrapped: response.json() rejecting
\* on a 200 body that is not JSON, and channels.map on a body without items
RawError(step, kind) ==
  [name |-> IF kind = "json" THEN "FetchError" ELSE "TypeError",
   step |-> step, kind |-> kind, status |-> 200]

\* what a non-200 response makes the fetchers throw
ClassifyStatus(step, status) == ConnectionError(step, "http", status)

VARIABLES
  cfgReconnect,  \* this._options.amqp.reconnect is truthy
  channels,      \* this._channels: key -> channel descriptor
  connection,    \* this._connection: NoHandle (null) or a handle
  rhea,          \* the transport handles created so far
  nOpens,        \* open() calls made so far
  op,            \* the open() invocations
  nCloses,       \* close() calls made so far
  cl,            \* the close() invocations
  nDrops,        \* connection drops so far
  nCreates,      \* create* calls made so far
  created,       \* the create* call made in the last step, if any
  callLimit,     \* bound: the public calls the behaviour may make
  fired,         \* the events the transport handles emitted in the last step
  emitted,       \* the events the Connection emitted in the last step
  lastOpened     \* history: the open() that connected last and the channel
                 \* list it fetched, with no close() call and no new connect
                 \* attempt since (o = 0: none)

vars == <<cfgReconnect, channels, connection, rhea, nOpens, op, nCloses, cl,
          nDrops, nCreates, created, callLimit, fired, emitted, lastOpened>>

\* ---------------------------------------------------------------- events
\* the event names of rhea-promise's ConnectionEvents the model uses
ConnectionEvents == {"connection_open", "connection_close", "connection_error",
                     "disconnected", "error"}

\* an emitted event: its name and its argument, which is the context of the
\* emitting handle for a transport event and { error } for an event the
\* Connection emits of its own
Event(name, handle, error) == [name |-> name, handle |-> handle, error |-> error]

\* a variant that binds listeners for connection_open and connection_close
\* only
ReemitOpenClose(evs) ==
  SelectSeq(evs, LAMBDA e : e.name \in {"connection_open", "connection_close"})

\* the listeners bound on every handle, one per name of ConnectionEvents:
\* (...args) => this.emit(eventName, ...args)
Reemit(evs) == SelectSeq(evs, LAMBDA e : e.name \in ConnectionEvents)

\* a variant of the catch block of _openConnection that picks the events by
\* the class of the error
FetchFailureEventsByKind(error) ==
  IF error.name = "ConnectionAbortError"
  THEN << Event("connection_error", NoHandle, error) >>
  ELSE << Event("disconnected", NoHandle, error) >>

\* the catch block of _openConnection around the two fetches
FetchFailureEvents(error) ==
  << Event("connection_error", NoHandle, error),
     Event("disconnected", NoHandle, error) >>

\* this.emit(ConnectionEvents.error, { error }) of close() and of the
\* cleanup started by open()
ErrorEvent(error) == << Event("error", NoHandle, error) >>

\* an EventEmitter that has no listener for 'error' throws from emit
\* instead of emitting: an Error of its own, with { error } as context
UnhandledError(error) ==
  [name |-> "Error", step |-> error.step, kind |-> "unhandled", status |-> 0]

\* the events of this.emit(ConnectionEvents.error, { error }), by whether
\* the caller has a listener for 'error' at that moment
EmitError(listening, error) == IF listening THEN ErrorEvent(error) ELSE <<>>

\* onError of close(): emit, then `throw error` if the emit returned
CloseRejection(listening, error) ==
  IF listening THEN error ELSE UnhandledError(error)

\* ------------------------------------------------------ channel registry
EmptyMap == [k \in {} |-> NoError]

\* `${channel.process}.${channel.channel}`
Key(d) == d.process \o <<".">> \o d.channel

Max(S) == CHOOSE x \in S : \A y \in S : y <= x

\* a variant that adds the fetched entries to the registry already held
BuildRegistryMerged(items) ==
  [k \in DOMAIN channels \cup {Key(items[i]) : i \in DOMAIN items} |->
     IF \E i \in DOMAIN items : Key(items[i]) = k
     THEN items[Max({i \in DOMAIN items : Key(items[i]) = k})]
     ELSE channels[k]]

\* new Map(channels.map(c => [key, c])): a later entry replaces an earlier
\* one with the same key
BuildRegistry(items) ==
  [k \in {Key(items[i]) : i \in DOMAIN items} |->
     items[Max({i \in DOMAIN items : Key(items[i]) = k})]]

NotFound == Descriptor(<<>>, <<>>, "undefined")

getChannel(channelName) ==
  IF channelName \in DOMAIN channels THEN channels[channelName] ELSE NotFound

\* --------------------------------------------------------------- isOpen
isOpen == connection # NoHandle /\ rhea[connection].state = "open"

\* ------------------------------------------------------ create* methods
Methods == {"createSession", "createSender", "createAwaitableSender",
            "createReceiver"}

\* the channel names the caller asks for: one that the channel lists hold
\* and one that no list holds
ChannelNames == {Key(Descriptor(ProcP, ChanC, "d1")), <<"n">>}
NoName == <<>>

\* the `options` argument of a create* call, reduced to target.address and
\* source.address; "unset" is a field the caller left out
CallerOptions == { [target |-> "unset", source |-> "unset"],
                   [target |-> "mine", source |-> "mine"] }

\* lodash merge on one address field: the source value replaces the
\* caller's, except that a source value of undefined is skipped when the
\* caller has set the field
MergeAddress(own, address) ==
  IF address = "undefined" /\ own # "unset" THEN own ELSE address

\* a variant that keeps a field the caller has set
InjectDefaults(method, options, address) ==
  IF method = "createReceiver"
  THEN [options EXCEPT !.source = IF @ = "unset" THEN address ELSE @]
  ELSE [options EXCEPT !.target = IF @ = "unset" THEN address ELSE @]

\* merge(options, { target: { address } }) of the senders and
\* merge(options, { source: { address } }) of createReceiver
Inject(method, options, address) ==
  IF method = "createReceiver"
  THEN [options EXCEPT !.source = MergeAddress(@, address)]
  ELSE [options EXCEPT !.target = MergeAddress(@, address)]

NoCreate == [method |-> "none", channelName |-> NoName,
             options |-> [target |-> "unset", source |-> "unset"],
             error |-> "none", errorKey |-> NoName, delegate |-> "none",
             handle |-> NoHandle,
             passed |-> [target |-> "unset", source |-> "unset"]]

Thrown(method, channelName, options, message, key) ==
  [NoCreate EXCEPT !.method = method, !.channelName = channelName,
                   !.options = options, !.error = message, !.errorKey = key]

\* a variant of the create* methods without the isOpen() test
CreateCallUnguarded(method, channelName, options) ==
  [NoCreate EXCEPT !.method = method, !.channelName = channelName,
                   !.options = options, !.delegate = method,
                   !.handle = connection,
                   !.passed = IF method = "createSession" THEN options
                              ELSE Inject(method, options,
                                          getChannel(channelName).destination)]

\* createSession(options) and createSender / createAwaitableSender /
\* createReceiver(channelName, options): the error thrown, or the call
\* delegated to the transport handle with the options passed to it
CreateCall(method, channelName, options) ==
  IF ~isOpen
  THEN Thrown(method, channelName, options, "Connection is closed!", NoName)
  ELSE IF method = "createSession"
  THEN [NoCreate EXCEPT !.method = method, !.options = options,
                        !.delegate = method, !.handle = connection,
                        !.passed = options]
  ELSE IF getChannel(channelName) = NotFound
  THEN Thrown(method, channelName, options, "Channel not found", channelName)
  ELSE [NoCreate EXCEPT !.method = method, !.channelName = channelName,
                        !.options = options, !.delegate = method,
                        !.handle = connection,
                        !.passed = Inject(method, options,
                                          getChannel(channelName).destination)]

\* ----------------------------------------------------------------- Init
NoRhea == [state |-> "none", reconnect |-> FALSE]
NoOptions == [username |-> NoToken, password |-> NoToken, reconnect |-> FALSE]

IdleOpen == [pc |-> "idle", token |-> NoToken, issued |-> NoToken,
             bearer |-> NoToken, items |-> <<>>, options |-> NoOptions,
             failure |-> NoError, error |-> NoError, value |-> "none",
             calls |-> [token |-> 0, channels |-> 0, amqp |-> 0],
             cleanup |-> "none", cleanupHandle |-> NoHandle,
             cleanupDid |-> FALSE]

NoneOpened == [o |-> 0, items |-> <<>>]

\* over, overToken, opensAtCall, afterClose and closedOpen are history taken
\* when close() is called: the open() calls then in flight, those of them
\* whose token fetch was pending, the number of open() calls made, whether
\* the call directly follows a resolved close(), and whether it follows an
\* open() that connected; hadReconnect and reconnectAtCall are the
\* auto-reconnect flag of the handle when close() was called and when
\* close() called the transport's close
IdleClose == [pc |-> "idle", handle |-> NoHandle, didClose |-> FALSE,
              transportCalls |-> 0, error |-> NoError, value |-> "none",
              over |-> {}, overToken |-> {}, opensAtCall |-> 0,
              afterClose |-> FALSE, closedOpen |-> FALSE,
              hadReconnect |-> FALSE, reconnectAtCall |-> FALSE]

Constructed ==
  /\ cfgReconnect \in BOOLEAN
  /\ channels = EmptyMap
  /\ connection = NoHandle
  /\ rhea = [h \in Handles |-> NoRhea]
  /\ nOpens = 0
  /\ op = [o \in Opens |-> IdleOpen]
  /\ nCloses = 0
  /\ cl = [c \in Closes |-> IdleClose]
  /\ nDrops = 0
  /\ nCreates = 0
  /\ created = NoCreate
  /\ fired = <<>>
  /\ emitted = <<>>
  /\ lastOpened = NoneOpened

Init == Constructed /\ callLimit = MaxCalls

InitWide == Constructed /\ callLimit = MaxCalls + 1

\* ------------------------------------------------------------ transport
\* a variant that calls connection.close() first and switches auto-reconnect
\* off only after the await: the handle as the close call finds it
StopReconnectAfterClose(rh, h) == rh

\* this._connection._connection.set_reconnect(false), the statement before
\* connection.close() is called: the handle as the close call finds it
StopReconnect(rh, h) == [rh EXCEPT ![h].reconnect = FALSE]
\* _closeRheaConnection up to its await, on handle h: auto-reconnect is
\* switched off and connection.close() is called.  The transport closes a
\* handle that is open; on any other handle the call changes nothing.
RheaCloseCall(rh, h) ==
  [StopReconnect(rh, h) EXCEPT ![h].state = IF @ = "open" THEN "closing" ELSE @]

\* the awaited connection.close() settles without error
RheaClosed(rh, h) ==
  [rh EXCEPT ![h].state = IF @ = "closing" THEN "closed" ELSE @]

\* a variant that logs in with the client secret instead of the token
RheaOptionsSecret(token) ==
  [username |-> token, password |-> ClientSecret, reconnect |-> FALSE]

\* new RheaConnection({... username: token, password: token, reconnect: false})
RheaOptions(token) ==
  [username |-> token, password |-> token, reconnect |-> FALSE]

\* the handle the constructor returns, before connection.open()
NewRhea(options) == [state |-> "opening", reconnect |-> options.reconnect]

\* one step of the lifecycle: the transport handles emit evs, which the
\* bound listeners re-emit, and the Connection emits own; no create* call
\* is part of it
Emits(evs, own) ==
  /\ fired' = evs
  /\ emitted' = Reemit(evs) \o own
  /\ created' = NoCreate
  /\ UNCHANGED nCreates

InFlight == {"token", "channels", "amqp"}
Settled == {"resolved", "rejected"}

\* ---------------------------------------------------------------- open()
\* a variant of open() without the isOpen() shortcut
OpenNoGuard(o) ==
  /\ o = nOpens + 1
  /\ nOpens + nCloses + nCreates < callLimit
  /\ nOpens' = o
  /\ op' = [op EXCEPT ![o].pc = "token", ![o].calls.token = @ + 1]
  /\ lastOpened' = NoneOpened
  /\ Emits(<<>>, <<>>)
  /\ UNCHANGED <<cfgReconnect, channels, connection, rhea, nCloses, cl, nDrops,
                 callLimit>>

\* open(): resolves at once when isOpen(), else _openConnection runs up to
\* the await of the token fetch
Open(o) ==
  /\ o = nOpens + 1
  /\ nOpens + nCloses + nCreates < callLimit
  /\ nOpens' = o
  /\ IF isOpen
     THEN /\ op' = [op EXCEPT ![o].pc = "resolved", ![o].value = "this"]
          /\ UNCHANGED lastOpened
     ELSE /\ op' = [op EXCEPT ![o].pc = "token", ![o].calls.token = @ + 1]
          /\ lastOpened' = NoneOpened
  /\ Emits(<<>>, <<>>)
  /\ UNCHANGED <<cfgReconnect, channels, connection, rhea, nCloses, cl, nDrops,
                 callLimit>>

\* the locals of _openConnection (token, channels) end with the call
Unwound(o) ==
  [op[o] EXCEPT !.token = NoToken, !.issued = NoToken, !.bearer = NoToken,
                !.items = <<>>, !.options = NoOptions]

\* a variant of onError that throws a plain Error in place of err
RethrowPlain(err) == [err EXCEPT !.name = "Error"]

\* `throw err` in onError
Rethrow(err) == err

\* a variant of the catch path that starts another attempt after a
\* ConnectionError instead of rejecting
FailRetry(o, err, rh) ==
  /\ IF err.name = "ConnectionError"
     THEN op' = [op EXCEPT ![o] = [Unwound(o) EXCEPT
                   !.pc = "token", !.failure = err, !.calls.token = @ + 1]]
     ELSE op' = [op EXCEPT ![o] = [Unwound(o) EXCEPT
                   !.pc = "rejected", !.failure = err, !.error = err,
                   !.cleanup = "done"]]
  /\ rhea' = rh
  /\ UNCHANGED <<cfgReconnect, channels, connection, nOpens, nCloses, cl,
                 nDrops, callLimit, lastOpened>>

\* a variant of the catch path whose promise stays pending
FailPending(o, err, rh) ==
  /\ op' = [op EXCEPT ![o] = [Unwound(o) EXCEPT !.pc = "pending",
                                                !.failure = err]]
  /\ rhea' = rh
  /\ UNCHANGED <<cfgReconnect, channels, connection, nOpens, nCloses, cl,
                 nDrops, callLimit, lastOpened>>

\* the catch path of open(): onError starts _closeConnection() without
\* awaiting it and rethrows err.  rh is the transport state at the throw.
Fail(o, err, rh) ==
  /\ IF connection = NoHandle
     THEN /\ channels' = EmptyMap
          /\ rhea' = rh
          /\ op' = [op EXCEPT ![o] = [Unwound(o) EXCEPT
                                !.pc = "rejected", !.failure = err,
                                !.error = Rethrow(err), !.cleanup = "done"]]
     ELSE /\ channels' = channels
          /\ rhea' = RheaCloseCall(rh, connection)
          /\ op' = [op EXCEPT ![o] = [Unwound(o) EXCEPT
                                !.pc = "rejected", !.failure = err,
                                !.error = Rethrow(err), !.cleanup = "closing",
                                !.cleanupHandle = connection,
                                !.cleanupDid = (rh[connection].state = "open")]]
  /\ UNCHANGED <<cfgReconnect, connection, nOpens, nCloses, cl, nDrops,
                 callLimit, lastOpened>>

\* const { id_token: token } = json
IdToken(body) == body

\* headers: { Authorization: `Bearer ${token}` }
Bearer(token) == token

\* the token fetch of open() o settles with a 200 response
TokenOk(o) ==
  /\ op[o].pc = "token"
  /\ \E body \in TokenBodies(o) :
       op' = [op EXCEPT ![o].pc = "channels",
                        ![o].issued = body,
                        ![o].token = IdToken(body),
                        ![o].bearer = Bearer(IdToken(body)),
                        ![o].calls.channels = @ + 1]
  /\ Emits(<<>>, <<>>)
  /\ UNCHANGED <<cfgReconnect, channels, connection, rhea, nOpens, nCloses,
                 cl, nDrops, callLimit, lastOpened>>

\* the token fetch answers with another status, or fetch() throws
TokenFail(o) ==
  /\ op[o].pc = "token"
  /\ \E err \in {ClassifyStatus("token", s) : s \in Statuses}
                \cup {ClassifyThrown("token", k) : k \in {"network", "abort"}} :
       /\ Fail(o, err, rhea)
       /\ Emits(<<>>, FetchFailureEvents(err))

\* the channel fetch settles with 200: the registry is rebuilt and
\* _openRheaConnection runs up to the await of connection.open()
ChannelsOk(o) ==
  /\ op[o].pc = "channels"
  /\ \E items \in ChannelLists :
       /\ channels' = BuildRegistry(items)
       /\ op' = [op EXCEPT ![o].pc = "amqp", ![o].items = items,
                           ![o].options = RheaOptions(op[o].token),
                           ![o].calls.amqp = @ + 1]
  /\ connection' = o
  /\ rhea' = [rhea EXCEPT ![o] = NewRhea(RheaOptions(op[o].token))]
  /\ Emits(<<>>, <<>>)
  /\ UNCHANGED <<cfgReconnect, nOpens, nCloses, cl, nDrops, callLimit, lastOpened>>

\* the channel fetch answers with another status, fetch() throws, or the
\* 200 body is not JSON or has no items
ChannelsFail(o) ==
  /\ op[o].pc = "channels"
  /\ \E err \in {ClassifyStatus("channels", s) : s \in Statuses}
                \cup {ClassifyThrown("channels", k) : k \in {"network", "abort"}}
                \cup {RawError("channels", k) : k \in {"json", "items"}} :
       /\ Fail(o, err, rhea)
       /\ Emits(<<>>, FetchFailureEvents(err))

\* connection.open() of handle o settles without error; auto-reconnect is
\* then set on this._connection, whichever handle that is by now
RheaOpenOk(o) ==
  /\ op[o].pc = "amqp"
  /\ rhea' = IF cfgReconnect
             THEN [rhea EXCEPT ![o].state = "open",
                               ![connection].reconnect = TRUE]
             ELSE [rhea EXCEPT ![o].state = "open"]
  /\ op' = [op EXCEPT ![o] = [Unwound(o) EXCEPT !.pc = "resolved",
                                                !.value = "this"]]
  /\ lastOpened' = [o |-> o, items |-> op[o].items]
  /\ Emits(<< Event("connection_open", o, NoError) >>, <<>>)
  /\ UNCHANGED <<cfgReconnect, channels, connection, nOpens, nCloses, cl,
                 nDrops, callLimit>>

RheaOpenFail(o) ==
  /\ op[o].pc = "amqp"
  /\ \E k \in {"transport", "abort"} :
       /\ Fail(o, ClassifyThrown("amqp", k), [rhea EXCEPT ![o].state = "failed"])
       /\ Emits(IF k = "transport"
                THEN << Event("disconnected", o, NoError) >> ELSE <<>>, <<>>)

\* what connection.close() rejects with
TransportError == [name |-> "Error", step |-> "close", kind |-> "transport",
                   status |-> 0]

\* the event of a handle whose close has completed; a close call that found
\* the handle not open closes nothing
ClosedEvents(did, h) ==
  IF did THEN << Event("connection_close", h, NoError) >> ELSE <<>>

\* the _closeConnection() started by onError settles
CleanupDone(o) ==
  /\ op[o].cleanup = "closing"
  /\ \/ /\ rhea' = IF op[o].cleanupDid
                     THEN RheaClosed(rhea, op[o].cleanupHandle) ELSE rhea
        /\ channels' = EmptyMap
        /\ op' = [op EXCEPT ![o].cleanup = "done",
                            ![o].cleanupHandle = NoHandle,
                            ![o].cleanupDid = FALSE]
        /\ Emits(ClosedEvents(op[o].cleanupDid, op[o].cleanupHandle), <<>>)
     \/ /\ op[o].cleanupDid
        /\ rhea[op[o].cleanupHandle].state = "closing"
        /\ op' = [op EXCEPT ![o].cleanup = "failed",
                            ![o].cleanupHandle = NoHandle,
                            ![o].cleanupDid = FALSE]
        /\ \E listening \in BOOLEAN :
             Emits(<<>>, EmitError(listening, TransportError))
        /\ UNCHANGED <<rhea, channels>>
  /\ UNCHANGED <<cfgReconnect, connection, nOpens, nCloses, cl, nDrops,
                 callLimit, lastOpened>>

\* --------------------------------------------------------------- close()
\* close(): _closeConnection runs up to the await of connection.close();
\* without a handle nothing is awaited on and the registry is cleared
Close(c) ==
  /\ c = nCloses + 1
  /\ nOpens + nCloses + nCreates < callLimit
  /\ nCloses' = c
  /\ lastOpened' = NoneOpened
  /\ LET hist == [cl[c] EXCEPT
                    !.over = {o \in Opens : op[o].pc \in InFlight},
                    !.overToken = {o \in Opens : op[o].pc = "token"},
                    !.opensAtCall = nOpens,
                    !.closedOpen = (lastOpened.o # 0),
                    !.afterClose =
                       /\ c > 1
                       /\ cl[c - 1].pc = "resolved"
                       /\ cl[c - 1].over = {}
                       /\ cl[c - 1].opensAtCall = nOpens
                       /\ \A o \in Opens : /\ op[o].pc \notin InFlight
                                            /\ op[o].cleanup # "closing"]
     IN IF connection = NoHandle
        THEN /\ channels' = EmptyMap
             /\ cl' = [cl EXCEPT ![c] = [hist EXCEPT !.pc = "resolved",
                                                      !.value = "this"]]
             /\ rhea' = rhea
        ELSE /\ channels' = channels
             /\ rhea' = RheaCloseCall(rhea, connection)
             /\ cl' = [cl EXCEPT ![c] =
                         [hist EXCEPT !.pc = "closing",
                                      !.handle = connection,
                                      !.didClose = (rhea[connection].state = "open"),
                                      !.hadReconnect = rhea[connection].reconnect,
                                      !.reconnectAtCall =
                                         StopReconnect(rhea, connection)[connection].reconnect,
                                      !.transportCalls = @ + 1]]
  /\ Emits(<<>>, <<>>)
  /\ UNCHANGED <<cfgReconnect, connection, nOpens, op, nDrops, callLimit>>

\* what close() c knew of the handle it was closing ends with the call
Returned(c) ==
  [cl[c] EXCEPT !.handle = NoHandle, !.didClose = FALSE, !.hadReconnect = FALSE]

\* the connection.close() awaited by close() c settles
CloseDone(c) ==
  /\ cl[c].pc = "closing"
  /\ \/ /\ rhea' = IF cl[c].didClose THEN RheaClosed(rhea, cl[c].handle) ELSE rhea
        /\ channels' = EmptyMap
        /\ cl' = [cl EXCEPT ![c] = [Returned(c) EXCEPT !.pc = "resolved",
                                                      !.value = "this"]]
        /\ Emits(ClosedEvents(cl[c].didClose, cl[c].handle), <<>>)
     \/ /\ cl[c].didClose
        /\ rhea[cl[c].handle].state = "closing"
        /\ \E listening \in BOOLEAN :
             /\ cl' = [cl EXCEPT ![c] =
                         [Returned(c) EXCEPT
                            !.pc = "rejected",
                            !.error = CloseRejection(listening, TransportError)]]
             /\ Emits(<<>>, EmitError(listening, TransportError))
        /\ UNCHANGED <<rhea, channels>>
  /\ UNCHANGED <<cfgReconnect, connection, nOpens, op, nCloses, nDrops,
                 callLimit, lastOpened>>

\* ----------------------------------------------------------- environment
\* what a handle emits when its connection drops, with or without an error
\* reported by the peer
DropEvents(h) ==
  { << Event("disconnected", h, NoError) >>,
    << Event("connection_error", h, NoError),
       Event("disconnected", h, NoError) >> }

\* the network drops an open transport connection
Disconnect(h) ==
  /\ rhea[h].state = "open"
  /\ nDrops < MaxDrops
  /\ nDrops' = nDrops + 1
  /\ rhea' = [rhea EXCEPT ![h].state = "disconnected"]
  /\ \E evs \in DropEvents(h) : Emits(evs, <<>>)
  /\ UNCHANGED <<cfgReconnect, channels, connection, nOpens, op, nCloses, cl,
                 callLimit, lastOpened>>

\* the transport reopens a dropped connection that has auto-reconnect set
AutoReconnect(h) ==
  /\ rhea[h].state = "disconnected"
  /\ rhea[h].reconnect
  /\ rhea' = [rhea EXCEPT ![h].state = "open"]
  /\ Emits(<< Event("connection_open", h, NoError) >>, <<>>)
  /\ UNCHANGED <<cfgReconnect, channels, connection, nOpens, op, nCloses, cl,
                 nDrops, callLimit, lastOpened>>

\* -------------------------------------------------------------- create*
\* one create* call, up to the await of the transport's create call
Create(method, channelName, options) ==
  /\ nOpens + nCloses + nCreates < callLimit
  /\ method = "createSession" <=> channelName = NoName
  /\ nCreates' = nCreates + 1
  /\ created' = CreateCall(method, channelName, options)
  /\ fired' = <<>>
  /\ emitted' = <<>>
  /\ UNCHANGED <<cfgReconnect, channels, connection, rhea, nOpens, op, nCloses,
                 cl, nDrops, callLimit, lastOpened>>

Next ==
  \/ \E o \in Opens : Open(o)
  \/ \E o \in Opens : TokenOk(o)
  \/ \E o \in Opens : TokenFail(o)
  \/ \E o \in Opens : ChannelsOk(o)
  \/ \E o \in Opens : ChannelsFail(o)
  \/ \E o \in Opens : RheaOpenOk(o)
  \/ \E o \in Opens : RheaOpenFail(o)
  \/ \E o \in Opens : CleanupDone(o)
  \/ \E c \in Closes : Close(c)
  \/ \E c \in Closes : CloseDone(c)
  \/ \E h \in Handles : Disconnect(h)
  \/ \E h \in Handles : AutoReconnect(h)
  \/ \E m \in Methods, n \in ChannelNames \cup {NoName}, opts \in CallerOptions :
       Create(m, n, opts)

Spec == Init /\ [][Next]_vars

SpecWide == InitWide /\ [][Next]_vars

\* every awaited promise of the environment settles: the token fetch, the
\* channel fetch, the transport's open and the transport's close
Settles ==
  /\ \A o \in Opens :
       /\ WF_vars(TokenOk(o) \/ TokenFail(o))
       /\ WF_vars(ChannelsOk(o) \/ ChannelsFail(o))
       /\ WF_vars(RheaOpenOk(o) \/ RheaOpenFail(o))
       /\ WF_vars(CleanupDone(o))
  /\ \A c \in Closes : WF_vars(CloseDone(c))

SpecLive == Init /\ [][Next]_vars /\ Settles

\* ================================================================ claims

\* C1: when isOpen() is true at the call, open() resolves with the
\* Connection itself in the same step, issues no token fetch, channel fetch
\* or transport open, and leaves the channel registry, the transport handle
\* and every other invocation unchanged.
C1_OpenWhenOpenIsNoOp ==
  [][\A o \in Opens :
       ( /\ op[o].pc = "idle"
         /\ op'[o].pc # "idle"
         /\ connection # NoHandle
         /\ rhea[connection].state = "open" )
       => /\ op'[o].pc = "resolved"
          /\ op'[o].value = "this"
          /\ op'[o].calls = op[o].calls
          /\ \A q \in Opens \ {o} : op'[q] = op[q]
          /\ channels' = channels
          /\ connection' = connection
          /\ rhea' = rhea]_vars

\* an open() that resolved without fetching anything, the connection open
C1_Witness ==
  \E o \in Opens :
    /\ op[o].pc = "resolved"
    /\ op[o].value = "this"
    /\ op[o].calls.token = 0
    /\ isOpen
    /\ DOMAIN channels # {}

\* C2: within an attempt the channel fetch is issued only after the token
\* fetch has settled with a token, the transport open only after the channel
\* fetch has settled; the Bearer header and the transport's username and
\* password are the token this attempt's token fetch returned; and a step
\* that fails leaves every later step of the attempt unissued.
C2_StepsInOrderWithFreshToken ==
  \A o \in Opens :
    /\ op[o].calls.channels > 0 => op[o].calls.token > 0 /\ op[o].pc # "token"
    /\ op[o].calls.amqp > 0 =>
         op[o].calls.channels > 0 /\ op[o].pc \notin {"token", "channels"}
    /\ op[o].pc \in {"channels", "amqp"} =>
         /\ op[o].issued \in TokenBodies(o)
         /\ op[o].token = op[o].issued
         /\ op[o].bearer = op[o].issued
    /\ op[o].pc = "amqp" =>
         /\ op[o].options.username = op[o].issued
         /\ op[o].options.password = op[o].issued
    /\ op[o].failure.step = "token" =>
         op[o].calls.channels = 0 /\ op[o].calls.amqp = 0
    /\ op[o].failure.step = "channels" => op[o].calls.amqp = 0

\* an attempt whose three steps have all been issued, with a real token
C2_Witness ==
  \E o \in Opens :
    /\ op[o].pc = "amqp"
    /\ op[o].issued = o
    /\ op[o].options.username = o
    /\ op[o].calls = [token |-> 1, channels |-> 1, amqp |-> 1]

\* C3: after a successful open() every (process, channel) key of the channel
\* list that attempt fetched resolves to a channel carrying a destination
\* fetched for that key in that attempt; after a close() that followed a
\* connected open() has resolved (and no open() was called since), every
\* lookup answers not-found.
C3_RoundTrip ==
  /\ lastOpened.o # 0 =>
       \A i \in DOMAIN lastOpened.items :
         LET d == lastOpened.items[i]
             found == getChannel(Key(d))
         IN /\ found # NotFound
            /\ \E j \in DOMAIN lastOpened.items :
                 /\ lastOpened.items[j].process = d.process
                 /\ lastOpened.items[j].channel = d.channel
                 /\ lastOpened.items[j].destination = found.destination
  /\ \A c \in Closes :
       ( /\ cl[c].pc = "resolved"
         /\ cl[c].closedOpen
         /\ cl[c].opensAtCall = nOpens )
       => DOMAIN channels = {}

\* C4: a close() called right after a close() that resolved, with no open()
\* in between and nothing in flight, calls the transport's close no more
\* and does not reject.
C4_SecondCloseIsNoOp ==
  \A c \in Closes :
    cl[c].afterClose => cl[c].transportCalls = 0 /\ cl[c].pc # "rejected"

\* C5: the channel registry is non-empty only while isOpen() is true.
C5_RegistryOnlyWhileOpen == DOMAIN channels # {} => isOpen

\* C6: at most one connect attempt is in flight at any time.
C6_OneAttemptInFlight ==
  Cardinality({o \in Opens : op[o].pc \in InFlight}) <= 1

\* C7: an open() whose token fetch was pending when close() was called
\* issues no channel fetch and no transport open, and settles only by
\* rejecting with a ConnectionAbortError.
C7_CloseCancelsPendingOpen ==
  \A c \in Closes : \A o \in cl[c].overToken :
    /\ op[o].calls.channels = 0
    /\ op[o].calls.amqp = 0
    /\ op[o].pc \in Settled =>
         op[o].pc = "rejected" /\ op[o].error.name = "ConnectionAbortError"

\* C8: once a close() that was called while an open() was in flight has
\* resolved, the Connection is not open through the transport handle of
\* that open().
C8_NoOpenAfterCloseResolved ==
  \A c \in Closes : \A o \in cl[c].over :
    cl[c].pc = "resolved" => ~(isOpen /\ connection = o)

\* the failures the reconnect policy is to retry: a network error, a
\* transport-open failure, or one of these HTTP statuses
RetryableStatuses == {408, 429, 500, 502, 503, 504}

Retryable(err) ==
  /\ err.name = "ConnectionError"
  /\ err.kind = "http" => err.status \in RetryableStatuses

\* amqp.reconnect.reconnect_limit of the default options
ReconnectLimit == 10

\* C9: with a reconnect policy configured, an open() does not reject with
\* a Retryable failure while it has made fewer attempts than the limit.
C9_RetryableIsRetried ==
  cfgReconnect =>
    \A o \in Opens :
      ~( /\ op[o].pc = "rejected"
         /\ Retryable(op[o].error)
         /\ op[o].calls.token < ReconnectLimit )

\* C10: with reconnect disabled an open() call issues at most one token
\* fetch, one channel fetch and one transport open, and a failure of any
\* step, of any kind, is what the call rejects with.
C10_OneAttemptWithoutReconnect ==
  ~cfgReconnect =>
    \A o \in Opens :
      /\ op[o].calls.token <= 1
      /\ op[o].calls.channels <= 1
      /\ op[o].calls.amqp <= 1
      /\ op[o].failure # NoError =>
           op[o].pc = "rejected" /\ op[o].error = op[o].failure

\* reconnect disabled, the transport open failed after both fetches
C10_Witness ==
  /\ ~cfgReconnect
  /\ \E o \in Opens :
       /\ op[o].pc = "rejected"
       /\ op[o].error = ConnectionError("amqp", "transport", 0)
       /\ op[o].calls = [token |-> 1, channels |-> 1, amqp |-> 1]

\* C11: an open() that rejects because the token or the channel endpoint
\* answered a non-200 status rejects with a ConnectionError when the status
\* is one of 408, 429, 500, 502, 503, 504 and with a ConnectionFatalError for
\* any other status (401 from the token endpoint among them), after exactly
\* one attempt.
C11_StatusClassified ==
  \A o \in Opens :
    (op[o].pc = "rejected" /\ op[o].failure.kind = "http") =>
      /\ op[o].error =
           IF op[o].failure.status \in RetryableStatuses
           THEN ConnectionError(op[o].failure.step, "http", op[o].failure.status)
           ELSE ConnectionFatalError(op[o].failure.step, op[o].failure.status)
      /\ op[o].calls.token = 1

C19_AbsentTokenFails ==
  \A o \in Opens :
    /\ op[o].issued = Undefined =>
         /\ op[o].calls.channels = 0
         /\ op[o].calls.amqp = 0
         /\ op[o].pc = "rejected"
         /\ op[o].error.name = "ConnectionFatalError"
    /\ op[o].pc \in {"channels", "amqp"} => op[o].token # Undefined

\* C20: auto-reconnect is set on a transport handle only when a reconnect
\* policy is configured and only once the open of that very handle has
\* completed successfully: a handle whose open is pending or has failed has
\* it off.
C20_ReconnectOnlyAfterOpen ==
  \A h \in Handles :
    /\ rhea[h].reconnect => cfgReconnect
    /\ rhea[h].state \in {"opening", "failed"} => ~rhea[h].reconnect

C15_EventsReemitted ==
  LET ofCurrent(evs) ==
        SelectSeq(evs, LAMBDA e : connection # NoHandle /\ e.handle = connection)
  IN ofCurrent(emitted) = ofCurrent(fired)

\* the current handle has emitted connection_error and then disconnected,
\* and the Connection has re-emitted both
C15_Witness ==
  /\ connection # NoHandle
  /\ fired = << Event("connection_error", connection, NoError),
                Event("disconnected", connection, NoError) >>
  /\ emitted = fired

\* a failure the taxonomy calls Fatal: a status that is not to be retried
FatalFailure(err) ==
  err.kind = "http" /\ err.status \notin RetryableStatuses

\* C16 as stated: the events the Connection emits for a failure of the
\* token fetch or the channel fetch are an error event and a close event
\* when the failure is Fatal, an error event alone when it is an abort, and
\* disconnected alone when it is Retryable.
C16_EventsByKind ==
  \A i \in DOMAIN emitted :
    LET err == emitted[i].error
        names == {emitted[j].name : j \in {k \in DOMAIN emitted :
                                             emitted[k].error = err}}
    IN err.step \in {"token", "channels"} =>
         /\ FatalFailure(err) =>
              names \in {{"error", "connection_close"},
                         {"connection_error", "connection_close"}}
         /\ err.name = "ConnectionAbortError" =>
              names \in {{"error"}, {"connection_error"}}
         /\ Retryable(err) => names = {"disconnected"}

\* C16, amended: the step in which the token fetch or the channel fetch of
\* an open() fails makes the Connection emit connection_error and then
\* disconnected, both carrying the error open() rejects with, whatever the
\* kind of the failure, and nothing else.
C16_ErrorThenDisconnected ==
  [][\A o \in Opens :
       (op[o].pc \in {"token", "channels"} /\ op'[o].pc = "rejected") =>
         emitted' = << Event("connection_error", NoHandle, op'[o].error),
                       Event("disconnected", NoHandle, op'[o].error) >>]_vars

\* an open() aborted during its token fetch, with the two events emitted
C16_Witness ==
  \E o \in Opens :
    /\ op[o].pc = "rejected"
    /\ op[o].error = ConnectionAbortError("token")
    /\ emitted = << Event("connection_error", NoHandle, op[o].error),
                    Event("disconnected", NoHandle, op[o].error) >>

\* C13: a create* call made while isOpen() is false throws 'Connection is
\* closed!'; a channel-scoped create call made while isOpen() is true with a
\* channel name the registry does not hold throws the channel-not-found
\* error naming that name; and a call that throws delegates nothing to the
\* transport.
C13_CreateGuards ==
  created.method # "none" =>
    /\ ~isOpen =>
         created.error = "Connection is closed!" /\ created.delegate = "none"
    /\ ( /\ isOpen
         /\ created.method # "createSession"
         /\ created.channelName \notin DOMAIN channels ) =>
         /\ created.error = "Channel not found"
         /\ created.errorKey = created.channelName
         /\ created.delegate = "none"
    /\ created.error # "none" =>
         created.delegate = "none" /\ created.handle = NoHandle

\* createReceiver on an open Connection with a filled registry that does
\* not hold the name asked for
C13_Witness ==
  /\ isOpen
  /\ DOMAIN channels # {}
  /\ created.method = "createReceiver"
  /\ created.error = "Channel not found"
  /\ created.errorKey = <<"n">>
  /\ created.delegate = "none"

\* C14: every channel-scoped create call that is delegated passes the
\* destination of the channel its name resolves to as the address, in
\* target for the senders and in source for createReceiver, whatever the
\* caller's options hold there, and passes the caller's other field as it
\* came.
C14_AddressInjected ==
  created.delegate \in Methods \ {"createSession"} =>
    LET destination == getChannel(created.channelName).destination
    IN /\ created.handle = connection
       /\ IF created.delegate = "createReceiver"
          THEN /\ created.passed.source = destination
               /\ created.passed.target = created.options.target
          ELSE /\ created.passed.target = destination
               /\ created.passed.source = created.options.source

\* createSender delegated for a caller who had set target.address
C14_Witness ==
  /\ created.delegate = "createSender"
  /\ created.options.target = "mine"
  /\ created.passed.target = "d1"
  /\ created.passed.source = "mine"

\* the keys of a fetched channel list
KeysOf(items) == {Key(items[i]) : i \in DOMAIN items}

C22_RegistryKeptWhileOpen ==
  [][( /\ lastOpened.o # 0
       /\ lastOpened' = lastOpened
       /\ cl' = cl
       /\ \A o \in Opens : ~(op[o].pc = "channels" /\ op'[o].pc = "amqp") )
     => channels' = channels]_vars

\* the handles whose listeners re-emit on the Connection: every handle
\* created, since no statement removes a listener
Forwarding == {h \in Handles : rhea[h].state # "none"}

\* C23: at most one transport handle is open or has auto-reconnect set at
\* any time; a handle that open() has replaced as this._connection is not
\* open, has auto-reconnect off, and none of its events is re-emitted.
C23_OneLiveHandle ==
  /\ Cardinality({h \in Handles : rhea[h].state = "open" \/ rhea[h].reconnect}) <= 1
  /\ \A h \in Forwarding \ {connection} :
       /\ rhea[h].state # "open"
       /\ ~rhea[h].reconnect
       /\ \A i \in DOMAIN emitted : emitted[i].handle # h

\* C24: when the transport's close fails during close(), close() rejects
\* with the transport's error, the Connection emits one error event
\* carrying that error and nothing else, and the registry is left as it was.
C24_CloseFailure ==
  [][\A c \in Closes :
       (cl[c].pc = "closing" /\ cl'[c].pc = "rejected") =>
         /\ cl'[c].error = TransportError
         /\ emitted' = << Event("error", NoHandle, TransportError) >>
         /\ channels' = channels]_vars

\* C25: provided every token fetch, channel fetch, transport open and
\* transport close settles, every open() call that was made ends resolved
\* or rejected, and so does every close() call.
C25_CallsSettle ==
  /\ \A o \in Opens : (op[o].pc # "idle") ~> (op[o].pc \in Settled)
  /\ \A c \in Closes : (cl[c].pc # "idle") ~> (cl[c].pc \in Settled)

\* an open() that went through its three steps has resolved, and a close()
\* that waited for the transport's close has resolved
C25_Witness ==
  /\ \E o \in Opens : /\ op[o].pc = "resolved"
                       /\ op[o].calls = [token |-> 1, channels |-> 1, amqp |-> 1]
  /\ \E c \in Closes : cl[c].pc = "resolved" /\ cl[c].transportCalls = 1

====
